---- MODULE Spec2Model ----
(***************************************************************************)
(* muser: note-triggered audio capture (examples/nn_fft.py), the           *)
(* velocity-vector to MIDI-event codec and the random chord generator      *)
(* (muser/sequencer.py), and the MIDI transport helpers (muser/iodata.py). *)
(*                                                                         *)
(* Two Python threads share the module globals of nn_fft.py: the JACK      *)
(* process callback (process) and the main thread running the batch loop.  *)
(* Each action below is one step between two points where the interpreter  *)
(* can switch threads.  Channels are numbered 1..channels here (0-based in *)
(* the source).                                                            *)
(***************************************************************************)
EXTENDS Integers, Sequences, FiniteSets, TLC

\* ------------------------------------------------------------ constants
channels == 2
batches == 2
batch_size == 2
minimum_frames == 10
NOTE_ON == 144
NOTE_OFF == 128
CONTROL == 176
ALL_NOTES_OFF == 123
VELOCITY_HI == 127
N_PITCHES == 127

NSlots == batches * batch_size

\* In each capture window the engine delivers to an enabled sink the blocks a
\* recording needs (minimum_frames); over a run it delivers at most ExtraFrames
\* blocks beyond those.
ExtraFrames == 2

VARIABLES
    note_toggle,   \* nn_fft.py:61  capture-enabled flag
    buffers,       \* nn_fft.py:51  accumulation buffer: sequence of frames
    buffer_,       \* nn_fft.py:60  last fetched block of each channel
    recordings,    \* nn_fft.py:50  slot -> [set, buffers]
    midi_sent,     \* messages handed to rtmidi_out, in order
    wavs,          \* waveform files written by the export loop, in order
    pc,            \* position of the main thread
    cur,           \* index of the recording the batch loop is at (0: none yet)
    cb,            \* the process callback: position and locals
    delivered,     \* blocks the engine has delivered in this capture window
    extra,         \* blocks delivered beyond a window's first minimum_frames
    script,        \* what the synthesizer plays back after a trigger
    castMode,      \* what the build does with an out-of-range float -> uint8
    cin,           \* codec: the chord or velocity vector handed in
    vec,           \* codec: the velocity vector
    ev,            \* codec: the note-on and note-off events
    cpc,           \* codec: position
    rng,           \* generator: state of the global np.random stream, per run
    gen,           \* generator: the pitches drawn so far, per run
    ports,         \* transport: whether get_ports() lists any port, per direction
    handles,       \* transport: what each rtmidi handle has opened
    events,        \* send_events: the (event, pause) pairs handed in
    loop,          \* send_events: its local `loop`
    loop0,         \* send_events: the `loop` argument of the call
    sidx,          \* send_events: pairs of the current pass already sent
    wire,          \* send_events: send_message and sleep calls made, in order
    tpc            \* transport: position

captureVars == <<note_toggle, buffers, buffer_, recordings, midi_sent, wavs,
                 pc, cur, cb, delivered, extra, script>>
codecVars == <<castMode, cin, vec, ev, cpc>>
genVars == <<rng, gen>>
ioVars == <<ports, handles, events, loop, loop0, sidx, wire, tpc>>
vars == <<note_toggle, buffers, buffer_, recordings, midi_sent, wavs, pc, cur,
          cb, delivered, extra, script, castMode, cin, vec, ev, cpc,
          rng, gen, ports, handles, events, loop, loop0, sidx, wire, tpc>>

\* ------------------------------------------------------------ the engine
\* A block is <<cycle, index, loud>>: the capture window and position the
\* engine delivered it at, and whether any of its samples is nonzero.
Scripts == {"decay", "sustain", "gap"}

\* get_array() of channel ch for the n-th block of a capture window (the
\* synthesizer plays the same on every channel).
\*   decay:   silent from block minimum_frames on
\*   sustain: never silent
\*   gap:     one silent block just before block minimum_frames, then decay
get_array(s, ch, n) ==
    CASE s = "decay"   -> n < minimum_frames
      [] s = "sustain" -> TRUE
      [] s = "gap"     -> n < minimum_frames - 1 \/ n = minimum_frames

\* np.any(block)
np_any(block) == block[3]

\* A frame (one entry of buffers along axis 1) is silent when no channel sounds.
FrameSilent(frame) == \A ch \in 1..channels : ~np_any(frame[ch])

CbIdle == [pc |-> "wait", cyc |-> 0, n |-> 0, tmp |-> <<>>]

NoRecording == [set |-> FALSE, buffers |-> <<>>]

\* What rtmidi_out is handed: the events of one recording's chord, or the
\* note-off of every pitch (midi_basic=True).
NoteMsg(status, slot) == <<status, slot, "chord">>
AllOffMsg == <<NOTE_OFF, 0, "all">>

NoInput == [kind |-> "none"]
NoEvents == [on |-> <<>>, off |-> <<>>]

\* The two runs of the generator that are compared.
Runs == {"A", "B"}

NoHandles == [out |-> "closed", in |-> "closed"]

\* The generator and the transport before they are used.
GenParked ==
    /\ rng = [r \in Runs |-> 0]
    /\ gen = [r \in Runs |-> <<>>]

IoParked ==
    /\ ports = [out |-> FALSE, in |-> FALSE]
    /\ handles = NoHandles
    /\ events = <<>>
    /\ loop = 0
    /\ loop0 = 0
    /\ sidx = 0
    /\ wire = <<>>
    /\ tpc = "off"

\* ------------------------------------------------------------ Init
\* buffer_ is np.ndarray(shape): uninitialised memory, any content.
Init ==
    /\ note_toggle = FALSE
    /\ buffers = <<>>
    /\ buffer_ \in [1..channels -> {<<0, 0, FALSE>>, <<0, 0, TRUE>>}]
    /\ recordings = [s \in 1..NSlots |-> NoRecording]
    /\ midi_sent = <<>>
    /\ wavs = <<>>
    /\ pc = "next"
    /\ cur = 0
    /\ cb = CbIdle
    /\ delivered = 0
    /\ extra = 0
    /\ script \in Scripts
    /\ castMode = "wrap"
    /\ cin = NoInput
    /\ vec = <<>>
    /\ ev = NoEvents
    /\ cpc = "off"
    /\ GenParked
    /\ IoParked

\* ------------------------------------------------------------ process()
Halted == {"raised", "done"}

\* line 69: if note_toggle
CbEnter ==
    /\ cb.pc = "wait"
    /\ pc \notin Halted
    /\ IF note_toggle
         THEN /\ delivered < minimum_frames \/ extra < ExtraFrames
              /\ delivered' = delivered + 1
              /\ extra' = IF delivered < minimum_frames THEN extra
                                                        ELSE extra + 1
              /\ cb' = [pc |-> "fetch", cyc |-> cur, n |-> delivered + 1,
                        tmp |-> <<>>]
         ELSE UNCHANGED <<delivered, extra, cb>>
    /\ UNCHANGED <<note_toggle, buffers, buffer_, recordings, midi_sent, wavs,
                   pc, cur, script>>
    /\ UNCHANGED codecVars
    /\ UNCHANGED <<genVars, ioVars>>

\* lines 70-71: for ch in range(channels): buffer_[ch] = ...get_array()
\* (only this callback reads the other channels' blocks, so the loop is one step)
CbFetch ==
    /\ cb.pc = "fetch"
    /\ pc \notin Halted
    /\ buffer_' = [ch \in 1..channels |->
                     <<cb.cyc, cb.n, get_array(script, ch, cb.n)>>]
    /\ cb' = [cb EXCEPT !.pc = "load"]
    /\ UNCHANGED <<note_toggle, buffers, recordings, midi_sent, wavs, pc, cur,
                   delivered, extra, script>>
    /\ UNCHANGED codecVars
    /\ UNCHANGED <<genVars, ioVars>>

\* line 72, right-hand side: np.append(buffers, buffer_, axis=1) builds a new
\* array from the buffers it reads now.
CbLoad ==
    /\ cb.pc = "load"
    /\ pc \notin Halted
    /\ cb' = [cb EXCEPT !.pc = "store", !.tmp = Append(buffers, buffer_)]
    /\ UNCHANGED <<note_toggle, buffers, buffer_, recordings, midi_sent, wavs,
                   pc, cur, delivered, extra, script>>
    /\ UNCHANGED codecVars
    /\ UNCHANGED <<genVars, ioVars>>

\* CbStore with the callback switching the capture off itself once it has
\* appended.
CbStore_ClearsFlag ==
    /\ cb.pc = "store"
    /\ pc \notin Halted
    /\ buffers' = cb.tmp
    /\ note_toggle' = FALSE
    /\ cb' = CbIdle
    /\ UNCHANGED <<buffer_, recordings, midi_sent, wavs, pc, cur,
                   delivered, extra, script>>
    /\ UNCHANGED codecVars
    /\ UNCHANGED <<genVars, ioVars>>

\* line 72, the assignment: buffers = <the new array>
CbStore ==
    /\ cb.pc = "store"
    /\ pc \notin Halted
    /\ buffers' = cb.tmp
    /\ cb' = CbIdle
    /\ UNCHANGED <<note_toggle, buffer_, recordings, midi_sent, wavs, pc, cur,
                   delivered, extra, script>>
    /\ UNCHANGED codecVars
    /\ UNCHANGED <<genVars, ioVars>>

\* ------------------------------------------------------------ batch loop
\* lines 80-83: next recording of the batch loop, or leave the loop
NextRecording ==
    /\ pc = "next"
    /\ IF cur < NSlots
         THEN cur' = cur + 1 /\ pc' = "enable"
         ELSE cur' = cur /\ pc' = "dump"
    /\ UNCHANGED <<note_toggle, buffers, buffer_, recordings, midi_sent, wavs,
                   cb, delivered, extra, script>>
    /\ UNCHANGED codecVars
    /\ UNCHANGED <<genVars, ioVars>>

\* line 84: note_toggle = True (the engine's script restarts with the trigger)
Enable ==
    /\ pc = "enable"
    /\ note_toggle' = TRUE
    /\ delivered' = 0
    /\ pc' = "note_on"
    /\ UNCHANGED <<buffers, buffer_, recordings, midi_sent, wavs, cur, cb,
                   extra, script>>
    /\ UNCHANGED codecVars
    /\ UNCHANGED <<genVars, ioVars>>

\* line 85: send_events(events[0])
NoteOn ==
    /\ pc = "note_on"
    /\ midi_sent' = Append(midi_sent, NoteMsg(NOTE_ON, cur))
    /\ pc' = "poll_any"
    /\ UNCHANGED <<note_toggle, buffers, buffer_, recordings, wavs, cur, cb,
                   delivered, extra, script>>
    /\ UNCHANGED codecVars
    /\ UNCHANGED <<genVars, ioVars>>

\* line 86, left operand of `or`: np.any(buffer_[0])
PollAny ==
    /\ pc = "poll_any"
    /\ pc' = IF np_any(buffer_[1]) THEN "poll_pass" ELSE "poll_len"
    /\ UNCHANGED <<note_toggle, buffers, buffer_, recordings, midi_sent, wavs,
                   cur, cb, delivered, extra, script>>
    /\ UNCHANGED codecVars
    /\ UNCHANGED <<genVars, ioVars>>

\* line 86, right operand of `or`: buffers.shape[1] < 10
PollLen ==
    /\ pc = "poll_len"
    /\ pc' = IF Len(buffers) < minimum_frames THEN "poll_pass" ELSE "disable"
    /\ UNCHANGED <<note_toggle, buffers, buffer_, recordings, midi_sent, wavs,
                   cur, cb, delivered, extra, script>>
    /\ UNCHANGED codecVars
    /\ UNCHANGED <<genVars, ioVars>>

\* lines 87-89: the loop body (pass), back to the loop condition
PollPass ==
    /\ pc = "poll_pass"
    /\ pc' = "poll_any"
    /\ UNCHANGED <<note_toggle, buffers, buffer_, recordings, midi_sent, wavs,
                   cur, cb, delivered, extra, script>>
    /\ UNCHANGED codecVars
    /\ UNCHANGED <<genVars, ioVars>>

\* Disable with the assignment of line 90 left out.
Disable_Forgotten ==
    /\ pc = "disable"
    /\ pc' = "note_off"
    /\ UNCHANGED <<note_toggle, buffers, buffer_, recordings, midi_sent, wavs,
                   cur, cb, delivered, extra, script>>
    /\ UNCHANGED codecVars
    /\ UNCHANGED <<genVars, ioVars>>

\* line 90: note_toggle = False
Disable ==
    /\ pc = "disable"
    /\ note_toggle' = FALSE
    /\ pc' = "note_off"
    /\ UNCHANGED <<buffers, buffer_, recordings, midi_sent, wavs, cur, cb,
                   delivered, extra, script>>
    /\ UNCHANGED codecVars
    /\ UNCHANGED <<genVars, ioVars>>

\* line 91: send_events(events[1])
NoteOff ==
    /\ pc = "note_off"
    /\ midi_sent' = Append(midi_sent, NoteMsg(NOTE_OFF, cur))
    /\ pc' = "seal"
    /\ UNCHANGED <<note_toggle, buffers, buffer_, recordings, wavs, cur, cb,
                   delivered, extra, script>>
    /\ UNCHANGED codecVars
    /\ UNCHANGED <<genVars, ioVars>>

\* Seal storing into the first recording instead of the loop's current one.
Seal_WrongSlot ==
    /\ pc = "seal"
    /\ recordings' = [recordings EXCEPT
                        ![1] = [set |-> TRUE, buffers |-> buffers]]
    /\ pc' = "reset"
    /\ UNCHANGED <<note_toggle, buffers, buffer_, midi_sent, wavs, cur, cb,
                   delivered, extra, script>>
    /\ UNCHANGED codecVars
    /\ UNCHANGED <<genVars, ioVars>>

\* line 92: recording['buffers'] = buffers
Seal ==
    /\ pc = "seal"
    /\ recordings' = [recordings EXCEPT
                        ![cur] = [set |-> TRUE, buffers |-> buffers]]
    /\ pc' = "reset"
    /\ UNCHANGED <<note_toggle, buffers, buffer_, midi_sent, wavs, cur, cb,
                   delivered, extra, script>>
    /\ UNCHANGED codecVars
    /\ UNCHANGED <<genVars, ioVars>>

\* Reset emptying the array in place: the recording just stored holds the same
\* array.
Reset_InPlace ==
    /\ pc = "reset"
    /\ buffers' = <<>>
    /\ recordings' = [recordings EXCEPT ![cur].buffers = <<>>]
    /\ pc' = "next"
    /\ UNCHANGED <<note_toggle, buffer_, midi_sent, wavs, cur, cb,
                   delivered, extra, script>>
    /\ UNCHANGED codecVars
    /\ UNCHANGED <<genVars, ioVars>>

\* line 93: buffers = np.ndarray([channels, 0, buffer_size])
Reset ==
    /\ pc = "reset"
    /\ buffers' = <<>>
    /\ pc' = "next"
    /\ UNCHANGED <<note_toggle, buffer_, recordings, midi_sent, wavs, cur, cb,
                   delivered, extra, script>>
    /\ UNCHANGED codecVars
    /\ UNCHANGED <<genVars, ioVars>>

\* ------------------------------------------------------------ interrupt
TryPcs == {"next", "enable", "note_on", "poll_any", "poll_len", "poll_pass",
           "disable", "note_off", "seal", "reset"}

\* line 95: KeyboardInterrupt / SystemExit raised inside the try block
Interrupt ==
    /\ pc \in TryPcs
    /\ pc' = "except"
    /\ UNCHANGED <<note_toggle, buffers, buffer_, recordings, midi_sent, wavs,
                   cur, cb, delivered, extra, script>>
    /\ UNCHANGED codecVars
    /\ UNCHANGED <<genVars, ioVars>>

\* Except keeping what was captured so far as the recording, flag untouched.
Except_KeepsPartial ==
    /\ pc = "except"
    /\ recordings' = IF cur >= 1
                       THEN [recordings EXCEPT
                               ![cur] = [set |-> TRUE, buffers |-> buffers]]
                       ELSE recordings
    /\ pc' = "all_off"
    /\ UNCHANGED <<note_toggle, buffers, buffer_, midi_sent, wavs, cur, cb,
                   delivered, extra, script>>
    /\ UNCHANGED codecVars
    /\ UNCHANGED <<genVars, ioVars>>

\* line 96: note_toggle = False
Except ==
    /\ pc = "except"
    /\ note_toggle' = FALSE
    /\ pc' = "all_off"
    /\ UNCHANGED <<buffers, buffer_, recordings, midi_sent, wavs, cur, cb,
                   delivered, extra, script>>
    /\ UNCHANGED codecVars
    /\ UNCHANGED <<genVars, ioVars>>

\* lines 99-103: muser.iodata.midi_all_notes_off(rtmidi_out, midi_basic=True),
\* delete the clients, re-raise
AllOff ==
    /\ pc = "all_off"
    /\ midi_sent' = Append(midi_sent, AllOffMsg)
    /\ pc' = "raised"
    /\ UNCHANGED <<note_toggle, buffers, buffer_, recordings, wavs, cur, cb,
                   delivered, extra, script>>
    /\ UNCHANGED codecVars
    /\ UNCHANGED <<genVars, ioVars>>

\* ------------------------------------------------------------ export
\* line 106: recordings.dump('recordings.pickle')
Dump ==
    /\ pc = "dump"
    /\ pc' = "export"
    /\ UNCHANGED <<note_toggle, buffers, buffer_, recordings, midi_sent, wavs,
                   cur, cb, delivered, extra, script>>
    /\ UNCHANGED codecVars
    /\ UNCHANGED <<genVars, ioVars>>

\* lines 108-115: one .wav per recording, in index order, then quit()
Export ==
    /\ pc = "export"
    /\ IF Len(wavs) < NSlots
         THEN /\ wavs' = Append(wavs, [slot |-> Len(wavs) + 1,
                                       snd |-> recordings[Len(wavs) + 1].buffers])
              /\ pc' = "export"
         ELSE /\ wavs' = wavs
              /\ pc' = "done"
    /\ UNCHANGED <<note_toggle, buffers, buffer_, recordings, midi_sent, cur,
                   cb, delivered, extra, script>>
    /\ UNCHANGED codecVars
    /\ UNCHANGED <<genVars, ioVars>>

Next ==
    \/ CbEnter \/ CbFetch \/ CbLoad \/ CbStore
    \/ NextRecording \/ Enable \/ NoteOn \/ PollAny \/ PollLen \/ PollPass
    \/ Disable \/ NoteOff \/ Seal \/ Reset
    \/ Interrupt \/ Except \/ AllOff
    \/ Dump \/ Export

Spec == Init /\ [][Next]_vars

\* The control thread and the callback are both scheduled again and again;
\* nothing obliges an interrupt to arrive.
CallbackStep == CbEnter \/ CbFetch \/ CbLoad \/ CbStore
ControlStep ==
    \/ NextRecording \/ Enable \/ NoteOn \/ PollAny \/ PollLen \/ PollPass
    \/ Disable \/ NoteOff \/ Seal \/ Reset \/ Except \/ AllOff
    \/ Dump \/ Export
FairSpec == Spec /\ WF_vars(ControlStep) /\ WF_vars(CallbackStep)

\* ------------------------------------------------------------ vocabulary
Sent(msg) == \E i \in 1..Len(midi_sent) : midi_sent[i] = msg
PollPcs == {"poll_any", "poll_len", "poll_pass"}
HandlerPcs == {"except", "all_off", "raised"}
AfterLoopPcs == {"dump", "export", "done"}

\* The controller state of section 4.2 the main thread is in.
CtrlState ==
    CASE pc \in {"next", "enable"} \cup AfterLoopPcs -> "Idle"
      [] pc = "note_on" -> "Armed"
      [] pc \in PollPcs -> "Draining"
      [] pc \in {"disable", "note_off", "seal", "reset"} -> "Closed"
      [] pc \in HandlerPcs -> "Cancelled"

\* ------------------------------------------------------------ C1
\* C1: the accumulation buffer grows only while note_toggle is true: no step
\* appends a frame while the sink is disabled.
C1_AppendOnlyWhileEnabled ==
    [][Len(buffers') > Len(buffers) => note_toggle]_vars

\* ------------------------------------------------------------ C2
\* C2: the control loop leaves the poll only in a state where at least
\* minimum_frames frames are accumulated and the last frame appended is silent.
C2_LeavesPollOnlyWhenSilent ==
    [][(pc \in PollPcs /\ pc' = "disable")
         => /\ Len(buffers) >= minimum_frames
            /\ FrameSilent(buffers[Len(buffers)])]_vars

\* ------------------------------------------------------------ C3
\* C3: when the engine's frames become silent starting at frame minimum_frames,
\* every sealed buffer has exactly minimum_frames frames.
C3_SealedLengthIsMinimum ==
    script = "decay" =>
        \A s \in 1..NSlots :
            recordings[s].set => Len(recordings[s].buffers) = minimum_frames

\* ------------------------------------------------------------ C4
\* C4: a recording slot changes only by being sealed, once, by the cycle it
\* belongs to, after that cycle's flag was disabled and before the next
\* trigger; when the batch loop has completed, every slot is sealed.
C4_SealedExactlyOnce ==
    /\ [](pc \in AfterLoopPcs => \A s \in 1..NSlots : recordings[s].set)
    /\ [][\A s \in 1..NSlots :
            recordings'[s] # recordings[s] =>
                /\ ~recordings[s].set /\ recordings'[s].set
                /\ s = cur
                /\ ~note_toggle
                /\ Sent(NoteMsg(NOTE_ON, s))
                /\ ~Sent(NoteMsg(NOTE_ON, s + 1))]_vars

C4_Witness ==
    pc = "done" /\ \A s \in 1..NSlots : recordings[s].set

\* ------------------------------------------------------------ C5
\* C5: at the moment a cycle is triggered the accumulation buffer is empty, and
\* while the sink is enabled it holds only frames of the current cycle.
C5_BufferFreshAtTrigger ==
    /\ pc = "enable" => buffers = <<>>
    /\ note_toggle => \A i \in 1..Len(buffers) : buffers[i][1][1] = cur

\* ------------------------------------------------------------ C6
\* C6: every capture cycle eventually leaves the Draining poll.
C6_PollEventuallyEnds ==
    [](pc \in PollPcs => <>(pc \notin PollPcs))

\* ------------------------------------------------------------ C7
\* C7: once an interrupt is being handled the loop is never resumed and no
\* recording is stored; when the interrupt has propagated the sink is disabled
\* and the all-notes-off has been sent; the buffer of a cycle whose notes were
\* not yet released is not in the recordings.
C7_InterruptDiscardsPartial ==
    /\ [](pc = "raised" => ~note_toggle /\ Sent(AllOffMsg))
    /\ []((pc \in HandlerPcs /\ cur >= 1 /\ ~Sent(NoteMsg(NOTE_OFF, cur)))
            => ~recordings[cur].set)
    /\ [][(pc \in HandlerPcs) =>
            (pc' \in HandlerPcs /\ recordings' = recordings)]_vars

C7_Witness ==
    /\ pc = "raised"
    /\ cur >= 1
    /\ Sent(NoteMsg(NOTE_ON, cur)) /\ ~Sent(NoteMsg(NOTE_OFF, cur))
    /\ Len(buffers) > 0

Zero == <<0, 1>>
IsZero(e) == e[1] = 0

\* Length of the vectors handed in directly.
VecLen == 3

PITCH_LIMS(name) ==
    CASE name = "midi"  -> <<0, 127>>
      [] name = "piano" -> <<21, 108>>

\* np.arange(lim[0], lim[1] + 1)
PITCH_RANGES(name) ==
    LET lim == PITCH_LIMS(name)
    IN  [k \in 1..(lim[2] + 1 - lim[1]) |-> lim[1] + k - 1]

\* np.zeros(PITCH_RANGES['midi'][1]): element 1 of the range is its length
midi_velocity_vector ==
    [k \in 1..PITCH_RANGES("midi")[2] |-> Zero]

\* velocity_vector[[(p.midi - 1) for p in chord.pitches]] = chord_velocity
\* An index outside [-n, n) raises IndexError; a negative one counts from the
\* end.
chord_to_velocity_vector(chord) ==
    LET chord_velocity == IF chord.none THEN <<1, 1>>
                                        ELSE <<chord.velocity, 1>>
        v0 == midi_velocity_vector
        n == Len(v0)
        idx == [i \in 1..Len(chord.pitches) |-> chord.pitches[i] - 1]
        inside == \A i \in 1..Len(idx) : -n <= idx[i] /\ idx[i] < n
        at(i) == IF idx[i] < 0 THEN idx[i] + n ELSE idx[i]
    IN  IF inside
          THEN [ok |-> TRUE,
                v |-> [k \in 1..n |->
                         IF \E i \in 1..Len(idx) : at(i) = k - 1
                           THEN chord_velocity ELSE v0[k]]]
          ELSE [ok |-> FALSE, v |-> <<>>]

\* np.flatnonzero(velocity_vector): the indices (from 0) of the nonzero entries
flatnonzero(v) ==
    SelectSeq([i \in 1..Len(v) |-> i - 1], LAMBDA k : ~IsZero(v[k + 1]))

\* An integer stored into a uint8 array keeps its low byte.
uint8_of_int(x) == x % 256

\* A float64 stored into a uint8 array is truncated; outside 0..255 the C
\* conversion is undefined: the low byte on some builds, 255 on others.
uint8_of_float(e, mode) ==
    LET x == e[1] \div e[2]
    IN  IF x \in 0..255 THEN x
        ELSE IF mode = "wrap" THEN x % 256 ELSE 255

\* lines 198-205: one row (status, pitch, velocity) per nonzero entry
vector_to_midi_events(status, v, mode) ==
    LET pitches == flatnonzero(v)
        velocities == [k \in 1..Len(pitches) |->
                         <<v[pitches[k] + 1][1] * VELOCITY_HI,
                           v[pitches[k] + 1][2]>>]
    IN  [k \in 1..Len(pitches) |->
           <<uint8_of_int(status), uint8_of_int(pitches[k]),
             uint8_of_float(velocities[k], mode)>>]

\* str.lower() of the names used here
lower(name) ==
    CASE name = "MIDI"  -> "midi"
      [] name = "Piano" -> "piano"
      [] OTHER          -> name

\* _key_check(PITCH_RANGES, pitch_range, 'lower'): a string is lowered and
\* looked up, and comes back lowered when it is not a key; anything without
\* .lower() comes back as it is.  An argument is [str, name, seq]: a string
\* `name`, or a tuple/array `seq`.
key_check_pitch_range(arg) ==
    IF arg.str
      THEN IF lower(arg.name) \in {"midi", "piano"}
             THEN [str |-> FALSE, name |-> "",
                   seq |-> PITCH_RANGES(lower(arg.name))]
             ELSE [str |-> TRUE, name |-> lower(arg.name), seq |-> <<>>]
      ELSE arg

\* The indices (from 0) that slice(*args) selects in an array of length n, for
\* one to three non-negative integers (start defaults to 0, step to 1).
slice_indices(args, n) ==
    LET start == IF Len(args) = 1 THEN 0 ELSE args[1]
        stop  == IF Len(args) = 1 THEN args[1] ELSE args[2]
        step  == IF Len(args) = 3 THEN args[3] ELSE 1
    IN  {i \in 0..(n - 1) : i >= start /\ i < stop /\ (i - start) % step = 0}

\* lines 177-179 evaluated before the test of midi_basic.
midi_all_notes_off_SliceFirst(midi_basic, pitch_range, mode) ==
    LET pr == key_check_pitch_range(pitch_range)
    IN  IF pr.str \/ Len(pr.seq) \notin 1..3
          THEN [ok |-> FALSE, events |-> <<>>]
          ELSE IF midi_basic
            THEN LET on == slice_indices(pr.seq, N_PITCHES)
                     pitches_off == [k \in 1..N_PITCHES |->
                                       IF (k - 1) \in on THEN <<1, 1>> ELSE Zero]
                 IN  [ok |-> TRUE,
                      events |-> vector_to_midi_events(NOTE_OFF, pitches_off, mode)]
            ELSE [ok |-> TRUE, events |-> << <<CONTROL, ALL_NOTES_OFF, 0>> >>]

\* lines 175-182.  slice(*pitch_range) takes one to three arguments and
\* raises TypeError for any other number; a string that is not a key of
\* PITCH_RANGES is unpacked into its characters, which no slice of an array
\* accepts.
midi_all_notes_off(midi_basic, pitch_range, mode) ==
    LET pr == key_check_pitch_range(pitch_range)
    IN  IF midi_basic
          THEN IF pr.str \/ Len(pr.seq) \notin 1..3
                 THEN [ok |-> FALSE, events |-> <<>>]
                 ELSE LET on == slice_indices(pr.seq, N_PITCHES)
                          pitches_off == [k \in 1..N_PITCHES |->
                                            IF (k - 1) \in on THEN <<1, 1>>
                                                              ELSE Zero]
                      IN  [ok |-> TRUE,
                           events |-> vector_to_midi_events(NOTE_OFF,
                                                            pitches_off, mode)]
          ELSE [ok |-> TRUE, events |-> << <<CONTROL, ALL_NOTES_OFF, 0>> >>]

\* The pitches and velocities the random draws are taken from.
DrawPitches == {0, 1, 21, 60}
DrawVelocities == {0, 64, 127}

\* np.random.choice(pitch_range, chord_size, replace=False): chord_size
\* different elements of the range, in the order drawn.
random_choice(range, chord_size) ==
    LET pool == {range[i] : i \in 1..Len(range)} \cap DrawPitches
    IN  {p \in [1..chord_size -> pool] :
            \A i, j \in 1..chord_size : i # j => p[i] # p[j]}

\* lines 114-119: the chords random_chord can return.  A velocity that is not
\* given is np.random.randint(*velocity_lims), 0 included.
random_chord(chord_size, pitch_range, fixed, velocity) ==
    LET range == key_check_pitch_range(pitch_range).seq
    IN  {[kind |-> "random", chord_size |-> chord_size, pitches |-> p,
          velocity |-> vl, none |-> FALSE] :
            p \in random_choice(range, chord_size),
            vl \in IF fixed THEN {velocity} ELSE DrawVelocities}

\* ------------------------------------------------------------ inputs
ChordPitches == {<<60, 64, 67>>, <<1>>, <<0>>, <<0, 1>>, <<128>>}
ChordVelocities == {1, 64, 127, 200}
Chords ==
    {[kind |-> "chord", pitches |-> p, velocity |-> vl, none |-> nn] :
        p \in ChordPitches, vl \in ChordVelocities, nn \in BOOLEAN}

\* Entries in a declared velocity range: normalized (0, 1/2, 1) and integer
\* MIDI velocities (1, 2, 64, 127).
Entries == {Zero, <<1, 2>>, <<1, 1>>, <<2, 1>>, <<64, 1>>, <<127, 1>>}
Vectors == {[kind |-> "vector", v |-> w] : w \in [1..VecLen -> Entries]}

\* Calls of midi_all_notes_off: by name, or with a tuple as the docstring says.
PitchRangeArgs ==
    {[str |-> TRUE, name |-> nm, seq |-> <<>>] :
        nm \in {"midi", "MIDI", "piano", "organ"}}
    \cup {[str |-> FALSE, name |-> "", seq |-> t] :
        t \in {<<0, 127>>, <<0, 128>>, <<21, 109>>, <<4>>, <<0, 1, 2, 3>>}}
AllOffCalls ==
    {[kind |-> "alloff", midi_basic |-> b, pitch_range |-> pr] :
        b \in BOOLEAN, pr \in PitchRangeArgs}

\* Calls of random_velocity_vector.
MaxChord == 2
RandomCalls ==
    {[kind |-> "randomcall", chord_size |-> k,
      pitch_range |-> [str |-> TRUE, name |-> nm, seq |-> <<>>],
      fixed |-> f, velocity |-> 64] :
        k \in 1..MaxChord, nm \in {"midi", "piano"}, f \in BOOLEAN}

\* ------------------------------------------------------------ the codec run
CodecInit ==
    /\ note_toggle = FALSE
    /\ buffers = <<>>
    /\ buffer_ = [ch \in 1..channels |-> <<0, 0, FALSE>>]
    /\ recordings = [s \in 1..NSlots |-> NoRecording]
    /\ midi_sent = <<>>
    /\ wavs = <<>>
    /\ pc = "off"
    /\ cur = 0
    /\ cb = CbIdle
    /\ delivered = 0
    /\ extra = 0
    /\ script = "decay"
    /\ castMode \in {"wrap", "saturate"}
    /\ cin \in Chords \cup Vectors \cup AllOffCalls \cup RandomCalls
    /\ vec = IF cin.kind = "vector" THEN cin.v ELSE <<>>
    /\ ev = NoEvents
    /\ cpc = CASE cin.kind = "vector"     -> "vector"
              [] cin.kind = "chord"      -> "chord"
              [] cin.kind = "alloff"     -> "alloff"
              [] cin.kind = "randomcall" -> "random"
    /\ GenParked
    /\ IoParked

\* lines 122-136 (called by note_to_velocity_vector, line 214)
ChordToVector ==
    /\ cpc = "chord"
    /\ LET r == chord_to_velocity_vector(cin)
       IN  /\ vec' = r.v
           /\ cpc' = IF r.ok THEN "vector" ELSE "error"
    /\ UNCHANGED <<castMode, cin, ev>>
    /\ UNCHANGED captureVars
    /\ UNCHANGED <<genVars, ioVars>>

\* lines 215-216: the note-on and the note-off events of the vector
Encode ==
    /\ cpc = "vector"
    /\ ev' = [on  |-> vector_to_midi_events(NOTE_ON, vec, castMode),
              off |-> vector_to_midi_events(NOTE_OFF, vec, castMode)]
    /\ cpc' = "encoded"
    /\ UNCHANGED <<castMode, cin, vec>>
    /\ UNCHANGED captureVars
    /\ UNCHANGED <<genVars, ioVars>>

\* lines 165-182
AllNotesOff ==
    /\ cpc = "alloff"
    /\ LET r == midi_all_notes_off(cin.midi_basic, cin.pitch_range, castMode)
       IN  /\ ev' = [on |-> <<>>, off |-> r.events]
           /\ cpc' = IF r.ok THEN "encoded" ELSE "error"
    /\ UNCHANGED <<castMode, cin, vec>>
    /\ UNCHANGED captureVars
    /\ UNCHANGED <<genVars, ioVars>>

\* lines 159-160: chord = random_chord(chord_size=pitches, ...)
RandomChord ==
    /\ cpc = "random"
    /\ cin' \in random_chord(cin.chord_size, cin.pitch_range, cin.fixed,
                              cin.velocity)
    /\ cpc' = "chord"
    /\ UNCHANGED <<castMode, vec, ev>>
    /\ UNCHANGED captureVars
    /\ UNCHANGED <<genVars, ioVars>>

CodecNext == ChordToVector \/ Encode \/ AllNotesOff \/ RandomChord

CodecSpec == CodecInit /\ [][CodecNext]_vars

\* ------------------------------------------------------------ C9
\* C9: for every valid velocity vector, the note-on events are one per nonzero
\* entry, in ascending pitch-index order, each with status NOTE_ON and a
\* velocity byte in 0..127.
C9_OneEventPerNonzeroEntry ==
    (cpc = "encoded" /\ cin.kind = "vector") =>
        /\ Len(ev.on) = Cardinality({i \in 1..Len(vec) : ~IsZero(vec[i])})
        /\ \A k \in 1..Len(ev.on) :
              /\ ev.on[k][1] = NOTE_ON
              /\ ev.on[k][2] + 1 \in 1..Len(vec)
              /\ ~IsZero(vec[ev.on[k][2] + 1])
              /\ ev.on[k][3] \in 0..VELOCITY_HI
        /\ \A j, k \in 1..Len(ev.on) : j < k => ev.on[j][2] < ev.on[k][2]

\* ------------------------------------------------------------ C10
\* C10: a chord of ascending pitches with a velocity converts and encodes to
\* note-on events (NOTE_ON, pitch, velocity), one per chord note in order, and
\* to note-off events with the same pitch and velocity bytes.
C10_ChordEventsKeepPitchAndVelocity ==
    (/\ cin.kind = "chord" /\ cpc \in {"error", "encoded"}
     /\ ~cin.none
     /\ \A i, j \in 1..Len(cin.pitches) :
           i < j => cin.pitches[i] < cin.pitches[j])
        => /\ cpc = "encoded"
           /\ ev.on = [i \in 1..Len(cin.pitches) |->
                         <<NOTE_ON, cin.pitches[i], cin.velocity>>]
           /\ ev.off = [i \in 1..Len(cin.pitches) |->
                          <<NOTE_OFF, cin.pitches[i], cin.velocity>>]

\* ====================================================================
\* The parts of the program that are not running in a specification
\* ====================================================================
CaptureParked ==
    /\ note_toggle = FALSE
    /\ buffers = <<>>
    /\ buffer_ = [ch \in 1..channels |-> <<0, 0, FALSE>>]
    /\ recordings = [s \in 1..NSlots |-> NoRecording]
    /\ midi_sent = <<>>
    /\ wavs = <<>>
    /\ pc = "off"
    /\ cur = 0
    /\ cb = CbIdle
    /\ delivered = 0
    /\ extra = 0
    /\ script = "decay"

CodecParked ==
    /\ castMode = "wrap"
    /\ cin = NoInput
    /\ vec = <<>>
    /\ ev = NoEvents
    /\ cpc = "off"

\* ====================================================================
\* muser/sequencer.py: the random draws of batch generation, in two runs
\* ====================================================================
\* np.random is one process-wide stream: a state, and a deterministic step
\* from each state to the next.  The program never seeds it, so a run starts
\* from whatever state the operating system's entropy gave it.
RngModulus == 16
RngStates == 0..(RngModulus - 1)
rng_next(s) == (5 * s + 3) % RngModulus

\* np.random.choice(pitch_range): the element the state selects
rng_choice(s, range) == range[(s % Len(range)) + 1]

\* np.random.randint(lo, hi): the value the state selects
rng_randint(s, lo, hi) == lo + (s % (hi - lo))

NotDrawn == -1

GenInit ==
    /\ rng \in [Runs -> RngStates]
    /\ gen = [r \in Runs |-> <<>>]
    /\ CaptureParked
    /\ CodecParked
    /\ IoParked

\* One generator call still has its velocity to draw.
Drawing(r) == Len(gen[r]) > 0 /\ gen[r][Len(gen[r])].velocity = NotDrawn

\* line 115: pitches = np.random.choice(pitch_range, chord_size, ...), for
\* chord_size = 1 and pitch_range = 'midi', in one of batches * batch_size calls
GenPitch(r) ==
    /\ Len(gen[r]) < NSlots
    /\ ~Drawing(r)
    /\ gen' = [gen EXCEPT ![r] =
                 Append(@, [pitch |-> rng_choice(rng[r], PITCH_RANGES("midi")),
                            velocity |-> NotDrawn])]
    /\ rng' = [rng EXCEPT ![r] = rng_next(@)]
    /\ UNCHANGED captureVars
    /\ UNCHANGED codecVars
    /\ UNCHANGED ioVars

\* lines 88-89: velocity = np.random.randint(*velocity_lims), from the same
\* stream
GenVelocity(r) ==
    /\ Drawing(r)
    /\ gen' = [gen EXCEPT ![r][Len(gen[r])].velocity =
                 rng_randint(rng[r], 0, VELOCITY_HI + 1)]
    /\ rng' = [rng EXCEPT ![r] = rng_next(@)]
    /\ UNCHANGED captureVars
    /\ UNCHANGED codecVars
    /\ UNCHANGED ioVars

GenNext == \E r \in Runs : GenPitch(r) \/ GenVelocity(r)

GenSpec == GenInit /\ [][GenNext]_vars

GenDone(r) == Len(gen[r]) = NSlots /\ ~Drawing(r)

\* ====================================================================
\* muser/iodata.py: init_midi_out and send_events
\* ====================================================================
MaxLoop == 3
MaxEvents == 2

\* An (event, pause) pair is <<e, p>>: which message, how long the pause.
EventPairs == {<<e, p>> : e \in {1, 2}, p \in {0, 1}}
EventLists == UNION {[1..n -> EventPairs] : n \in 0..MaxEvents}
LoopArgs == (-1)..MaxLoop

TransportInit ==
    /\ ports \in [out : BOOLEAN, in : BOOLEAN]
    /\ handles = NoHandles
    /\ events \in EventLists
    /\ loop0 \in LoopArgs
    /\ loop = loop0
    /\ sidx = 0
    /\ wire = <<>>
    /\ tpc = "open_out"
    /\ CaptureParked
    /\ CodecParked
    /\ GenParked

\* lines 31-34
OpenOut ==
    /\ tpc = "open_out"
    /\ handles' = [handles EXCEPT
                     !.out = IF ports.out THEN "port0" ELSE "virtual"]
    /\ tpc' = "open_in"
    /\ UNCHANGED <<ports, events, loop, loop0, sidx, wire>>
    /\ UNCHANGED <<captureVars, codecVars, genVars>>

\* The input opened according to the list of output ports.
OpenIn_ByOutList ==
    /\ tpc = "open_in"
    /\ handles' = [handles EXCEPT
                     !.in = IF ports.out THEN "port0" ELSE "virtual"]
    /\ tpc' = "return"
    /\ UNCHANGED <<ports, events, loop, loop0, sidx, wire>>
    /\ UNCHANGED <<captureVars, codecVars, genVars>>

\* lines 36-39
OpenIn ==
    /\ tpc = "open_in"
    /\ handles' = [handles EXCEPT
                     !.in = IF ports.in THEN "port0" ELSE "virtual"]
    /\ tpc' = "return"
    /\ UNCHANGED <<ports, events, loop, loop0, sidx, wire>>
    /\ UNCHANGED <<captureVars, codecVars, genVars>>

\* line 41: return midi_out, midi_in; the caller then calls
\* send_events(events, loop) of get_send_events(midi_out)
ReturnHandles ==
    /\ tpc = "return"
    /\ tpc' = "for"
    /\ UNCHANGED <<ports, handles, events, loop, loop0, sidx, wire>>
    /\ UNCHANGED <<captureVars, codecVars, genVars>>

\* line 65: for event, pause in events
ForNext ==
    /\ tpc = "for"
    /\ tpc' = IF sidx < Len(events) THEN "send" ELSE "check"
    /\ UNCHANGED <<ports, handles, events, loop, loop0, sidx, wire>>
    /\ UNCHANGED <<captureVars, codecVars, genVars>>

\* line 66: midi_out.send_message(event)
SendMessage ==
    /\ tpc = "send"
    /\ wire' = Append(wire, <<"send", events[sidx + 1][1]>>)
    /\ tpc' = "sleep"
    /\ UNCHANGED <<ports, handles, events, loop, loop0, sidx>>
    /\ UNCHANGED <<captureVars, codecVars, genVars>>

\* line 67: time.sleep(pause)
Sleep ==
    /\ tpc = "sleep"
    /\ wire' = Append(wire, <<"sleep", events[sidx + 1][2]>>)
    /\ sidx' = sidx + 1
    /\ tpc' = "for"
    /\ UNCHANGED <<ports, handles, events, loop, loop0>>
    /\ UNCHANGED <<captureVars, codecVars, genVars>>

\* The test of line 69 written as loop > 0.
LoopCheck_OffByOne ==
    /\ tpc = "check"
    /\ IF loop > 0
         THEN loop' = loop - 1 /\ sidx' = 0 /\ tpc' = "for"
         ELSE loop' = loop /\ sidx' = sidx /\ tpc' = "done"
    /\ UNCHANGED <<ports, handles, events, loop0, wire>>
    /\ UNCHANGED <<captureVars, codecVars, genVars>>

\* lines 69-72: if loop > 1: loop -= 1, and the while loop goes round;
\* else: break
LoopCheck ==
    /\ tpc = "check"
    /\ IF loop > 1
         THEN loop' = loop - 1 /\ sidx' = 0 /\ tpc' = "for"
         ELSE loop' = loop /\ sidx' = sidx /\ tpc' = "done"
    /\ UNCHANGED <<ports, handles, events, loop0, wire>>
    /\ UNCHANGED <<captureVars, codecVars, genVars>>

TransportNext ==
    \/ OpenOut \/ OpenIn \/ ReturnHandles
    \/ ForNext \/ SendMessage \/ Sleep \/ LoopCheck

TransportSpec == TransportInit /\ [][TransportNext]_vars

\* The calling thread keeps running: no step of the function waits on another
\* thread.
TransportFairSpec == TransportSpec /\ WF_vars(TransportNext)

\* ------------------------------------------------------------ C11
\* C11: midi_all_notes_off(midi_basic=True) over the full MIDI pitch range
\* returns 127 events, each with status NOTE_OFF and velocity byte 0, no pitch
\* twice.
FullMidiRange(arg) ==
    \/ arg.str /\ lower(arg.name) = "midi"
    \/ ~arg.str /\ arg.seq \in {<<0, 127>>, <<0, 128>>}

C11_BasicAllOffIs127NoteOffs ==
    (/\ cin.kind = "alloff" /\ cin.midi_basic
     /\ FullMidiRange(cin.pitch_range)
     /\ cpc \in {"error", "encoded"})
        => /\ cpc = "encoded"
           /\ Len(ev.off) = 127
           /\ \A k \in 1..Len(ev.off) :
                 ev.off[k][1] = NOTE_OFF /\ ev.off[k][3] = 0
           /\ \A j, k \in 1..Len(ev.off) :
                 j # k => ev.off[j][2] # ev.off[k][2]

\* ------------------------------------------------------------ C12
\* C12: midi_all_notes_off(midi_basic=False) returns exactly one event,
\* (CONTROL, ALL_NOTES_OFF, 0), whatever pitch_range it is given.
C12_AggregateAllOffIsOneControl ==
    (cin.kind = "alloff" /\ ~cin.midi_basic /\ cpc \in {"error", "encoded"})
        => /\ cpc = "encoded"
           /\ Len(ev.off) = 1
           /\ ev.off[1][1] = CONTROL
           /\ ev.off[1][2] = ALL_NOTES_OFF

C12_Witness ==
    /\ cin.kind = "alloff" /\ ~cin.midi_basic
    /\ cin.pitch_range.str /\ cin.pitch_range.name = "midi"
    /\ cpc = "encoded"
    /\ ev.off = << <<176, 123, 0>> >>

\* ------------------------------------------------------------ C13
\* C13: every velocity vector the generator produces for chord_size = k has
\* exactly k nonzero entries, those of the k different pitches drawn.
C13_VectorHasChordSizeActive ==
    (cin.kind = "random" /\ cpc \in {"vector", "encoded"})
        => /\ Cardinality({i \in 1..Len(vec) : ~IsZero(vec[i])})
                = cin.chord_size
           /\ {i - 1 : i \in {j \in 1..Len(vec) : ~IsZero(vec[j])}}
                = {cin.pitches[i] : i \in 1..Len(cin.pitches)}

\* ------------------------------------------------------------ C16
\* C16: constructing a vector from a chord with a pitch or a velocity outside
\* 0..127 ends in an error and yields no vector, and a vector that was
\* constructed is always encoded.
OutOfRange(chord) ==
    \/ chord.velocity \notin 0..VELOCITY_HI
    \/ \E i \in 1..Len(chord.pitches) : chord.pitches[i] \notin 0..127

C16_OutOfRangeRejectedAtConstruction ==
    /\ []((/\ cin.kind = "chord" /\ ~cin.none /\ OutOfRange(cin)
            /\ cpc \in {"error", "vector", "encoded"})
             => cpc = "error" /\ vec = <<>>)
    /\ [][(cpc = "vector") => (cpc' = "encoded")]_vars

\* ------------------------------------------------------------ C18
\* C18: for a vector whose entries are in their declared range (normalized
\* 0..1, or an integer MIDI velocity 0..127), the velocity byte of each event
\* is entry * 127, rounded or truncated, and clamped to 0..127.
InDeclaredRange(e) ==
    /\ e[1] >= 0
    /\ \/ e[1] <= e[2]
       \/ e[2] = 1 /\ e[1] <= VELOCITY_HI

clamp(x) == IF x > VELOCITY_HI THEN VELOCITY_HI ELSE IF x < 0 THEN 0 ELSE x

C18_VelocityByteClamped ==
    (/\ cpc = "encoded" /\ cin.kind \in {"vector", "chord"}
     /\ \A i \in 1..Len(vec) : InDeclaredRange(vec[i]))
        => \A k \in 1..Len(ev.on) :
              LET e == vec[ev.on[k][2] + 1]
              IN  ev.on[k][3] \in
                    {clamp((e[1] * VELOCITY_HI) \div e[2]),
                     clamp((2 * e[1] * VELOCITY_HI + e[2]) \div (2 * e[2]))}

\* ------------------------------------------------------------ C14
\* C14: two runs of batch generation with the same parameters (batches = 2,
\* batch_size = 2, chord_size = 1) produce the same sequence of pitches.
C14_SameRunsSamePitches ==
    (GenDone("A") /\ GenDone("B"))
        => [i \in 1..NSlots |-> gen["A"][i].pitch]
             = [i \in 1..NSlots |-> gen["B"][i].pitch]

\* ------------------------------------------------------------ C15
\* C15: every stored recording holds only frames captured in its own cycle
\* (while its own vector's notes were triggered); the export writes the
\* recordings in index order, one waveform each, none left out.
C15_StoreKeepsOrderAndPairing ==
    /\ \A s \in 1..NSlots :
          recordings[s].set =>
              \A i \in 1..Len(recordings[s].buffers) :
                  \A ch \in 1..channels : recordings[s].buffers[i][ch][1] = s
    /\ \A i \in 1..Len(wavs) :
          wavs[i].slot = i /\ wavs[i].snd = recordings[i].buffers
    /\ pc = "done" => Len(wavs) = NSlots

\* ------------------------------------------------------------ C17
\* C17: init_midi_out opens, for each direction on its own, port 0 when that
\* direction lists a port and a virtual port when it lists none, and returns
\* with both handles open.
InitMidiOutPcs == {"open_out", "open_in", "return"}

C17_OpensPortOrVirtual ==
    tpc \notin (InitMidiOutPcs \cup {"off"}) =>
        /\ handles.out = (IF ports.out THEN "port0" ELSE "virtual")
        /\ handles.in = (IF ports.in THEN "port0" ELSE "virtual")

C17_Witness ==
    /\ tpc = "for"
    /\ ~ports.out /\ ports.in
    /\ handles = [out |-> "virtual", in |-> "port0"]

\* ------------------------------------------------------------ C19
\* C19: once a recording is stored, no step changes the frames it holds.
C19_SealedRecordingImmutable ==
    [][\A s \in 1..NSlots :
          recordings[s].set => recordings'[s] = recordings[s]]_vars

C19_Witness ==
    /\ recordings[1].set
    /\ cur = 2 /\ note_toggle
    /\ cb.pc = "store"
    /\ Len(buffers) > 0
    /\ buffers # recordings[1].buffers

\* ------------------------------------------------------------ C20
\* C20: send_events sends the events in list order, each followed by its own
\* pause, the whole list `loop` times when loop > 1 and once otherwise, and
\* it returns.
RECURSIVE Flatten(_)
Flatten(evs) ==
    IF evs = <<>> THEN <<>>
    ELSE << <<"send", Head(evs)[1]>>, <<"sleep", Head(evs)[2]>> >>
           \o Flatten(Tail(evs))

RECURSIVE Repeat(_, _)
Repeat(w, n) == IF n <= 0 THEN <<>> ELSE w \o Repeat(w, n - 1)

Passes == IF loop0 > 1 THEN loop0 ELSE 1

IsPrefix(a, b) == Len(a) <= Len(b) /\ a = SubSeq(b, 1, Len(a))

C21_WriterDiscipline ==
    [][/\ (note_toggle' # note_toggle) => (cb' = cb /\ pc' # pc)
       /\ (buffers' # buffers /\ cb' = cb)
            => (~note_toggle /\ pc = "reset" /\ buffers' = <<>>)
       /\ (buffers' # buffers /\ note_toggle)
            => (cb.pc = "store" /\ cb' # cb /\ buffers' = cb.tmp /\ pc' = pc)
      ]_vars

C21_Witness ==
    /\ pc = "next"
    /\ cur >= 1
    /\ ~note_toggle
    /\ buffers = <<>>
    /\ recordings[cur].set
    /\ Len(recordings[cur].buffers) >= minimum_frames

====
